---- MODULE Spec2Model ----
(***************************************************************************)
(* Model of the platform independent Context class of openpnp-capture     *)
(* (common/context.cpp, common/context.h): the device registry m_devices, *)
(* the stream table m_streams (std::map<int32_t, Stream*>), the handle    *)
(* counter m_streamCounter and the public operations on them.             *)
(*                                                                         *)
(* The Stream class and the platform streams are not part of the sources  *)
(* at hand; a Stream object is modelled from the capability contract of   *)
(* the specification (open flag, lifetime frame counter, new-frame flag). *)
(***************************************************************************)
EXTENDS Integers, Sequences, FiniteSets, TLC

(***************************************************************************)
(* Bounds of the model.                                                    *)
(***************************************************************************)
\* number of Stream objects createPlatformStream may hand out in one run
MaxStreams == 2
\* frames the capture activities of all sessions may publish in one run
MaxFrames == 2
\* width in bits of the signed handle counter (int32_t in the source)
HandleBits == 4

VARIABLES
    m_devices,        \* std::vector<deviceInfo*>: sequence of descriptors
    m_streams,        \* std::map<int32_t, Stream*>: handle -> object id or NULL
    m_streamCounter,  \* int32_t
    heap,             \* the Stream objects created so far: object id -> object
    ctx,              \* "alive", "crashed" (undefined behaviour hit), "destroyed"
    last,             \* the most recent call: operation, arguments, result
    issued,           \* handles returned by successful openStream, in order
    closedOk,         \* handles whose session a closeStream has removed
    captured,         \* handle -> number of captureFrame calls that returned true
    remover,          \* a second thread of control inside removeStream: its position
    out               \* what the caller holds: returned strings, its CapFormatInfo

vars == <<m_devices, m_streams, m_streamCounter, heap, ctx, last, issued,
          closedOk, captured, remover, out>>

(***************************************************************************)
(* Data.                                                                   *)
(***************************************************************************)
\* the null Stream pointer; object ids are 1..MaxStreams
NULL == 0

\* a null deviceInfo pointer in m_devices
NullDevice == [present |-> FALSE, name |-> "", formats |-> <<>>]

Camera0 ==
    [present |-> TRUE, name |-> "Camera0",
     formats |-> << [width |-> 1, height |-> 1, fourcc |-> "YUYV"],
                    [width |-> 2, height |-> 1, fourcc |-> "YUYV"] >>]

Camera1 ==
    [present |-> TRUE, name |-> "Camera1",
     formats |-> << [width |-> 1, height |-> 1, fourcc |-> "YUYV"] >>]

\* the registries the platform enumeration may have produced: one device
\* with two formats; one device with one format and a null descriptor
Registries == { <<Camera0>>, <<Camera1, NullDevice>> }

\* arguments of the calls
DeviceIDs == 0..1
FormatIDs == 0..2
StreamIDs == -1..(MaxStreams - 1)
Capacities == {3, 6}

MinHandle == -(2 ^ (HandleBits - 1))

\* int32_t arithmetic: the value wraps to the width of the counter
WrapInt(x) == ((x - MinHandle) % (2 ^ HandleBits)) + MinHandle

NoCall == [op |-> "none", id |-> 0, arg |-> 0, ret |-> 0, ok |-> FALSE]

\* a call that returns an integer / a boolean
RetInt(op, id, arg, r) == [op |-> op, id |-> id, arg |-> arg, ret |-> r, ok |-> FALSE]
RetBool(op, id, arg, b) == [op |-> op, id |-> id, arg |-> arg, ret |-> 0, ok |-> b]

\* no thread is inside removeStream
Idle == [pc |-> "idle", ID |-> 0, it |-> NULL]

\* the caller's CapFormatInfo before any call has written it
NoInfo == [width |-> 0, height |-> 0, fourcc |-> "none"]

\* the caller holds nothing yet; name is << >> for the null char pointer and
\* <<s>> for a pointer to the string s
NoOut == [name |-> << >>, info |-> NoInfo, str |-> << >>, limits |-> <<0, 0>>]

\* a property call: arg holds the property id, ret the value (or enable, as
\* 0/1) passed in, ok the result
RetProp(op, id, propertyID, value, b) ==
    [op |-> op, id |-> id, arg |-> propertyID, ret |-> value, ok |-> b]

(***************************************************************************)
(* Stream objects (capability contract of the specification).              *)
(***************************************************************************)
\* a Stream as createPlatformStream returns it: closed, nothing captured
NewStream ==
    [isOpen |-> FALSE, frames |-> 0, newFrame |-> FALSE,
     width |-> 0, height |-> 0, deletes |-> 0]

\* the properties a session offers, and the limits its backend reports
SupportedProperties == {1}
PropertyLimits == <<0, 2>>

\* arguments of the property calls: an offered and an unoffered property,
\* a value within and a value outside the limits
PropertyIDs == {1, 2}
PropertyValues == {1, 3}

\* Stream::getPropertyLimits, setProperty, setAutoProperty: their results.
\* What they set goes to the device behind the backend, not to the Stream.
StreamGetPropertyLimits(s, propertyID) == propertyID \in SupportedProperties
StreamSetProperty(s, propertyID, value) ==
    /\ propertyID \in SupportedProperties
    /\ PropertyLimits[1] <= value /\ value <= PropertyLimits[2]
StreamSetAutoProperty(s, propertyID, enable) == propertyID \in SupportedProperties

\* Stream::open succeeded: open at the chosen format, capturing
OpenedStream(fmt) ==
    [NewStream EXCEPT !.isOpen = TRUE, !.width = fmt.width, !.height = fmt.height]

\* delete s: the destructor closes the stream
DeletedStream(s) ==
    [s EXCEPT !.isOpen = FALSE, !.newFrame = FALSE, !.deletes = @ + 1]

\* bytes of one RGB frame
FrameBytes(s) == s.width * s.height * 3

\* Stream::captureFrame succeeds iff the buffer is large enough and a frame
\* is available
CanCapture(s, bytes) == s.isOpen /\ s.newFrame /\ bytes >= FrameBytes(s)

Init ==
    /\ m_devices \in Registries
    /\ m_streams = << >>
    /\ m_streamCounter = 0
    /\ heap = << >>
    /\ ctx = "alive"
    /\ last = NoCall
    /\ issued = << >>
    /\ closedOk = {}
    /\ captured = << >>
    /\ remover = Idle
    /\ out = NoOut

(***************************************************************************)
(* The registry lookups.                                                   *)
(***************************************************************************)
\* device ids for the lookups: in range, null or out of range in either
\* registry
RegistryDeviceIDs == 0..2

\* getNumFormats with the check for a null descriptor left out
getNumFormatsNoNullCheck(index) ==
    /\ ctx = "alive"
    /\ last' = RetInt("getNumFormats", index, 0,
                      IF index >= Len(m_devices) THEN -1
                      ELSE Len(m_devices[index + 1].formats))
    /\ UNCHANGED <<remover, out, m_devices, m_streams, m_streamCounter, heap, ctx,
                   issued, closedOk, captured>>

getDeviceName(id) ==
    /\ ctx = "alive"
    /\ out' = [out EXCEPT !.name =
                  IF id >= Len(m_devices) THEN << >>
                  ELSE IF ~m_devices[id + 1].present THEN << >>
                  ELSE <<m_devices[id + 1].name>>]
    /\ last' = RetInt("getDeviceName", id, 0, 0)
    /\ UNCHANGED <<remover, m_devices, m_streams, m_streamCounter, heap, ctx, issued,
                   closedOk, captured>>

getNumFormats(index) ==
    /\ ctx = "alive"
    /\ last' = RetInt("getNumFormats", index, 0,
                      IF index >= Len(m_devices) THEN -1
                      ELSE IF ~m_devices[index + 1].present THEN -1
                      ELSE Len(m_devices[index + 1].formats))
    /\ UNCHANGED <<remover, out, m_devices, m_streams, m_streamCounter, heap, ctx,
                   issued, closedOk, captured>>

getFormatInfo(index, formatID) ==
    /\ ctx = "alive"
    /\ IF index >= Len(m_devices)
       THEN /\ last' = RetBool("getFormatInfo", index, formatID, FALSE)
            /\ UNCHANGED out
       ELSE IF ~m_devices[index + 1].present
       THEN /\ last' = RetBool("getFormatInfo", index, formatID, FALSE)
            /\ UNCHANGED out
       ELSE IF formatID < Len(m_devices[index + 1].formats)
       THEN /\ out' = [out EXCEPT !.info = m_devices[index + 1].formats[formatID + 1]]
            /\ last' = RetBool("getFormatInfo", index, formatID, TRUE)
       ELSE /\ last' = RetBool("getFormatInfo", index, formatID, FALSE)
            /\ UNCHANGED out
    /\ UNCHANGED <<remover, m_devices, m_streams, m_streamCounter, heap, ctx, issued,
                   closedOk, captured>>

(***************************************************************************)
(* The stream table.                                                       *)
(***************************************************************************)
\* m_streams.size()
StreamsSize == Cardinality(DOMAIN m_streams)

\* std::map::insert: an existing key keeps its value
MapInsert(map, key, value) ==
    IF key \in DOMAIN map THEN map ELSE map @@ (key :> value)

\* an erase that takes the entries before the key with it
MapEraseUpTo(map, key) == [k \in {x \in DOMAIN map : x > key} |-> map[k]]

\* std::map::erase
MapErase(map, key) == [k \in DOMAIN map \ {key} |-> map[k]]

\* std::map::operator[]: an absent key is inserted with a null pointer
MapIndex(map, key) == MapInsert(map, key, NULL)

\* a pointer the code may call a method on
Dereferenceable(p) == p # NULL /\ p \in DOMAIN heap /\ heap[p].deletes = 0

\* delete p: a no-op on the null pointer
Delete(h, p) == IF p = NULL THEN h ELSE [h EXCEPT ![p] = DeletedStream(@)]

\* a lookup that bounds the ID by the size of the map, as the queries do
lookupStreamByIndex(ID) ==
    IF ID >= 0 /\ ID < Cardinality(DOMAIN m_streams) /\ ID \in DOMAIN m_streams
    THEN m_streams[ID] ELSE NULL

\* Context::lookupStreamByID
lookupStreamByID(ID) == IF ID \in DOMAIN m_streams THEN m_streams[ID] ELSE NULL

\* storeStream with the counter left where it was
storeStreamNoIncrement(stream) ==
    [ID |-> m_streamCounter,
     counter |-> m_streamCounter,
     streams |-> MapInsert(m_streams, m_streamCounter, stream)]

\* Context::storeStream: the ID handed out, the counter and the map after it
storeStream(stream) ==
    [ID |-> m_streamCounter,
     counter |-> WrapInt(m_streamCounter + 1),
     streams |-> MapInsert(m_streams, m_streamCounter, stream)]

\* removeStream with the erase left out: the deleted pointer stays in the map
removeStreamNoErase(ID) ==
    IF ID \in DOMAIN m_streams
    THEN [ret |-> TRUE,
          streams |-> m_streams,
          heap |-> Delete(heap, m_streams[ID])]
    ELSE [ret |-> FALSE, streams |-> m_streams, heap |-> heap]

\* Context::removeStream: its result, the map and the objects after it
removeStream(ID) ==
    IF ID \in DOMAIN m_streams
    THEN [ret |-> TRUE,
          streams |-> MapErase(m_streams, ID),
          heap |-> Delete(heap, m_streams[ID])]
    ELSE [ret |-> FALSE, streams |-> m_streams, heap |-> heap]

(***************************************************************************)
(* Context::openStream                                                     *)
(***************************************************************************)
\* lines 117-125: no device with that id
openStreamNoDevice(id, formatID) ==
    /\ ~(Len(m_devices) > id)
    /\ last' = RetInt("openStream", id, formatID, -1)
    /\ UNCHANGED <<remover, out, m_devices, m_streams, m_streamCounter, heap, ctx, issued,
                   closedOk, captured>>

\* line 128 with device == nullptr: device->m_formats reads through a null
\* pointer.  The process dies, or the read yields a size the format id is
\* not below and the call returns -1.
openStreamNullDevice(id, formatID) ==
    /\ Len(m_devices) > id
    /\ ~m_devices[id + 1].present
    /\ last' = RetInt("openStream", id, formatID, -1)
    /\ \E outcome \in {"crash", "return"} :
          ctx' = IF outcome = "crash" THEN "crashed" ELSE ctx
    /\ UNCHANGED <<remover, out, m_devices, m_streams, m_streamCounter, heap, issued,
                   closedOk, captured>>

\* the format check with the handle reserved before it
openStreamBadFormatReserving(id, formatID) ==
    /\ Len(m_devices) > id
    /\ m_devices[id + 1].present
    /\ formatID >= Len(m_devices[id + 1].formats)
    /\ m_streamCounter' = WrapInt(m_streamCounter + 1)
    /\ last' = RetInt("openStream", id, formatID, -1)
    /\ UNCHANGED <<remover, out, m_devices, m_streams, heap, ctx, issued, closedOk, captured>>

\* lines 128-132: format index out of range
openStreamBadFormat(id, formatID) ==
    /\ Len(m_devices) > id
    /\ m_devices[id + 1].present
    /\ formatID >= Len(m_devices[id + 1].formats)
    /\ last' = RetInt("openStream", id, formatID, -1)
    /\ UNCHANGED <<remover, out, m_devices, m_streams, m_streamCounter, heap, ctx, issued,
                   closedOk, captured>>

\* lines 134-142: the platform stream is created and its open fails; the
\* function returns without deleting s
openStreamOpenFails(id, formatID) ==
    /\ Len(m_devices) > id
    /\ m_devices[id + 1].present
    /\ formatID < Len(m_devices[id + 1].formats)
    /\ Len(heap) < MaxStreams
    /\ heap' = Append(heap, NewStream)
    /\ last' = RetInt("openStream", id, formatID, -1)
    /\ UNCHANGED <<remover, out, m_devices, m_streams, m_streamCounter, ctx, issued,
                   closedOk, captured>>

\* lines 134-156: the platform stream opens and is stored
openStreamStores(id, formatID) ==
    /\ Len(m_devices) > id
    /\ m_devices[id + 1].present
    /\ formatID < Len(m_devices[id + 1].formats)
    /\ Len(heap) < MaxStreams
    /\ LET s == Len(heap) + 1
           st == storeStream(s)
       IN  /\ heap' = Append(heap, OpenedStream(m_devices[id + 1].formats[formatID + 1]))
           /\ m_streams' = st.streams
           /\ m_streamCounter' = st.counter
           /\ last' = RetInt("openStream", id, formatID, st.ID)
           /\ issued' = Append(issued, [h |-> st.ID, s |-> s])
           /\ captured' = MapInsert(captured, st.ID, 0)
    /\ UNCHANGED <<remover, out, m_devices, ctx, closedOk>>

openStream(id, formatID) ==
    /\ ctx = "alive"
    /\ \/ openStreamNoDevice(id, formatID)
       \/ openStreamNullDevice(id, formatID)
       \/ openStreamBadFormat(id, formatID)
       \/ openStreamOpenFails(id, formatID)
       \/ openStreamStores(id, formatID)

(***************************************************************************)
(* Context::closeStream                                                    *)
(***************************************************************************)
\* closeStream with the check for a negative ID left out
closeStreamNoNegativeCheck(streamID) ==
    /\ ctx = "alive"
    /\ LET r == removeStream(streamID)
       IN  /\ m_streams' = r.streams
           /\ heap' = r.heap
           /\ closedOk' = IF r.ret THEN closedOk \cup {streamID} ELSE closedOk
           /\ last' = RetBool("closeStream", streamID, 0, TRUE)
    /\ UNCHANGED <<remover, out, m_devices, m_streamCounter, ctx, issued, captured>>

closeStream(streamID) ==
    /\ ctx = "alive"
    /\ IF streamID < 0
       THEN /\ last' = RetBool("closeStream", streamID, 0, FALSE)
            /\ UNCHANGED <<m_streams, heap, closedOk>>
       ELSE LET r == removeStream(streamID)
            IN  /\ m_streams' = r.streams
                /\ heap' = r.heap
                /\ closedOk' = IF r.ret THEN closedOk \cup {streamID} ELSE closedOk
                \* the result of removeStream is only logged
                /\ last' = RetBool("closeStream", streamID, 0, TRUE)
    /\ UNCHANGED <<remover, out, m_devices, m_streamCounter, ctx, issued, captured>>

(***************************************************************************)
(* The query operations.  Each rejects a negative ID and an ID not below   *)
(* m_streams.size(), and otherwise calls a method on m_streams[streamID].  *)
(***************************************************************************)
\* the two range checks at the head of every query
QueryRejected(streamID) == streamID < 0 \/ streamID >= StreamsSize

\* m_streams[streamID], the pointer the query calls its method on
QueryTarget(streamID) == MapIndex(m_streams, streamID)[streamID]

\* the query returns its sentinel
QueryFails(op, streamID, arg, sentinel) ==
    /\ QueryRejected(streamID)
    /\ last' = sentinel
    /\ UNCHANGED <<m_streams, heap, ctx, captured>>

\* the method is called through a null pointer, after operator[] has put
\* the null entry into the map: the process dies, or the call returns
\* whatever it finds
QueryNullCall(streamID, results) ==
    /\ ~QueryRejected(streamID)
    /\ ~Dereferenceable(QueryTarget(streamID))
    /\ m_streams' = MapIndex(m_streams, streamID)
    /\ \E crash \in BOOLEAN, r \in results :
          /\ ctx' = IF crash THEN "crashed" ELSE ctx
          /\ last' = r
    /\ UNCHANGED <<heap, captured>>

isOpenStream(streamID) ==
    /\ ctx = "alive"
    /\ \/ QueryFails("isOpenStream", streamID, 0, RetInt("isOpenStream", streamID, 0, 0))
       \/ /\ ~QueryRejected(streamID)
          /\ Dereferenceable(QueryTarget(streamID))
          /\ last' = RetInt("isOpenStream", streamID, 0,
                            IF heap[QueryTarget(streamID)].isOpen THEN 1 ELSE 0)
          /\ UNCHANGED <<m_streams, heap, ctx, captured>>
       \/ QueryNullCall(streamID, {RetInt("isOpenStream", streamID, 0, r) : r \in {0, 1}})
    /\ UNCHANGED <<remover, out, m_devices, m_streamCounter, issued, closedOk>>

captureFrame(streamID, RGBbufferBytes) ==
    /\ ctx = "alive"
    /\ \/ QueryFails("captureFrame", streamID, RGBbufferBytes,
                     RetBool("captureFrame", streamID, RGBbufferBytes, FALSE))
       \/ /\ ~QueryRejected(streamID)
          /\ Dereferenceable(QueryTarget(streamID))
          /\ LET s == QueryTarget(streamID)
                 done == CanCapture(heap[s], RGBbufferBytes)
             IN  /\ heap' = IF done
                            THEN [heap EXCEPT ![s].frames = @ + 1, ![s].newFrame = FALSE]
                            ELSE heap
                 /\ captured' = IF done /\ streamID \in DOMAIN captured
                                THEN [captured EXCEPT ![streamID] = @ + 1]
                                ELSE captured
                 /\ last' = RetBool("captureFrame", streamID, RGBbufferBytes, done)
          /\ UNCHANGED <<m_streams, ctx>>
       \/ QueryNullCall(streamID, {RetBool("captureFrame", streamID, RGBbufferBytes, b) :
                                      b \in BOOLEAN})
    /\ UNCHANGED <<remover, out, m_devices, m_streamCounter, issued, closedOk>>

hasNewFrame(streamID) ==
    /\ ctx = "alive"
    /\ \/ QueryFails("hasNewFrame", streamID, 0, RetBool("hasNewFrame", streamID, 0, FALSE))
       \/ /\ ~QueryRejected(streamID)
          /\ Dereferenceable(QueryTarget(streamID))
          /\ last' = RetBool("hasNewFrame", streamID, 0, heap[QueryTarget(streamID)].newFrame)
          /\ UNCHANGED <<m_streams, heap, ctx, captured>>
       \/ QueryNullCall(streamID, {RetBool("hasNewFrame", streamID, 0, b) : b \in BOOLEAN})
    /\ UNCHANGED <<remover, out, m_devices, m_streamCounter, issued, closedOk>>

getStreamFrameCount(streamID) ==
    /\ ctx = "alive"
    /\ \/ QueryFails("getStreamFrameCount", streamID, 0,
                     RetInt("getStreamFrameCount", streamID, 0, 0))
       \/ /\ ~QueryRejected(streamID)
          /\ Dereferenceable(QueryTarget(streamID))
          /\ last' = RetInt("getStreamFrameCount", streamID, 0,
                            heap[QueryTarget(streamID)].frames)
          /\ UNCHANGED <<m_streams, heap, ctx, captured>>
       \/ QueryNullCall(streamID, {RetInt("getStreamFrameCount", streamID, 0, r) :
                                      r \in 0..MaxFrames})
    /\ UNCHANGED <<remover, out, m_devices, m_streamCounter, issued, closedOk>>

(***************************************************************************)
(* The property operations: lookupStreamByID, then the call on the stream. *)
(***************************************************************************)
\* no stream at that ID: the operation returns false
PropertyFails(op, streamID, propertyID, value) ==
    /\ lookupStreamByID(streamID) = NULL
    /\ last' = RetProp(op, streamID, propertyID, value, FALSE)
    /\ UNCHANGED <<heap, ctx, out>>

\* the pointer found is one removeStream has deleted and not yet erased:
\* the call on it uses freed memory
PropertyDanglingCall(op, streamID, propertyID, value) ==
    /\ lookupStreamByID(streamID) # NULL
    /\ ~Dereferenceable(lookupStreamByID(streamID))
    /\ \E crash \in BOOLEAN, b \in BOOLEAN :
          /\ ctx' = IF crash THEN "crashed" ELSE ctx
          /\ last' = RetProp(op, streamID, propertyID, value, b)
    /\ UNCHANGED <<heap, out>>

getStreamPropertyLimits(streamID, propertyID) ==
    /\ ctx = "alive"
    /\ \/ PropertyFails("getStreamPropertyLimits", streamID, propertyID, 0)
       \/ /\ Dereferenceable(lookupStreamByID(streamID))
          /\ LET ok == StreamGetPropertyLimits(heap[lookupStreamByID(streamID)], propertyID)
             IN  /\ out' = IF ok THEN [out EXCEPT !.limits = PropertyLimits] ELSE out
                 /\ last' = RetProp("getStreamPropertyLimits", streamID, propertyID, 0, ok)
          /\ UNCHANGED <<heap, ctx>>
       \/ PropertyDanglingCall("getStreamPropertyLimits", streamID, propertyID, 0)
    /\ UNCHANGED <<remover, m_devices, m_streams, m_streamCounter, issued, closedOk,
                   captured>>

setStreamAutoProperty(streamID, propertyID, enable) ==
    /\ ctx = "alive"
    /\ LET e == IF enable THEN 1 ELSE 0
       IN  \/ PropertyFails("setStreamAutoProperty", streamID, propertyID, e)
           \/ /\ Dereferenceable(lookupStreamByID(streamID))
              /\ last' = RetProp("setStreamAutoProperty", streamID, propertyID, e,
                                 StreamSetAutoProperty(heap[lookupStreamByID(streamID)],
                                                       propertyID, enable))
              /\ UNCHANGED <<heap, ctx, out>>
           \/ PropertyDanglingCall("setStreamAutoProperty", streamID, propertyID, e)
    /\ UNCHANGED <<remover, m_devices, m_streams, m_streamCounter, issued, closedOk,
                   captured>>

setStreamProperty(streamID, propertyID, value) ==
    /\ ctx = "alive"
    /\ \/ PropertyFails("setStreamProperty", streamID, propertyID, value)
       \/ /\ Dereferenceable(lookupStreamByID(streamID))
          /\ last' = RetProp("setStreamProperty", streamID, propertyID, value,
                             StreamSetProperty(heap[lookupStreamByID(streamID)],
                                               propertyID, value))
          /\ UNCHANGED <<heap, ctx, out>>
       \/ PropertyDanglingCall("setStreamProperty", streamID, propertyID, value)
    /\ UNCHANGED <<remover, m_devices, m_streams, m_streamCounter, issued, closedOk,
                   captured>>

(***************************************************************************)
(* The capture activity of an open session publishes a frame.              *)
(***************************************************************************)
\* frames published so far and not overwritten: delivered or pending
RECURSIVE FramesPublished(_)
FramesPublished(h) ==
    IF h = << >> THEN 0
    ELSE Head(h).frames + (IF Head(h).newFrame THEN 1 ELSE 0) + FramesPublished(Tail(h))

submitBuffer(s) ==
    /\ ctx = "alive"
    /\ s \in DOMAIN heap
    /\ heap[s].isOpen
    /\ ~heap[s].newFrame
    /\ FramesPublished(heap) < MaxFrames
    /\ heap' = [heap EXCEPT ![s].newFrame = TRUE]
    /\ last' = RetInt("submitBuffer", s, 0, 0)
    /\ UNCHANGED <<remover, out, m_devices, m_streams, m_streamCounter, ctx, issued, closedOk,
                   captured>>

(***************************************************************************)
(* Context::~Context: every pointer in the map is deleted, then the        *)
(* members go.                                                             *)
(***************************************************************************)
RECURSIVE DeleteAll(_, _)
DeleteAll(h, ptrs) ==
    IF ptrs = << >> THEN h ELSE DeleteAll(Delete(h, Head(ptrs)), Tail(ptrs))

\* the values of the map in key order
RECURSIVE MapValues(_)
MapValues(map) ==
    IF DOMAIN map = {} THEN << >>
    ELSE LET k == CHOOSE x \in DOMAIN map : \A y \in DOMAIN map : x <= y
         IN  <<map[k]>> \o MapValues(MapErase(map, k))

destroyContext ==
    /\ ctx = "alive"
    /\ heap' = DeleteAll(heap, MapValues(m_streams))
    /\ m_streams' = << >>
    /\ ctx' = "destroyed"
    /\ last' = RetInt("~Context", 0, 0, 0)
    /\ UNCHANGED <<remover, out, m_devices, m_streamCounter, issued, closedOk, captured>>

Next ==
    \/ \E id \in DeviceIDs, formatID \in FormatIDs : openStream(id, formatID)
    \/ \E streamID \in StreamIDs : closeStream(streamID)
    \/ \E streamID \in StreamIDs : isOpenStream(streamID)
    \/ \E streamID \in StreamIDs, bytes \in Capacities : captureFrame(streamID, bytes)
    \/ \E streamID \in StreamIDs : hasNewFrame(streamID)
    \/ \E streamID \in StreamIDs : getStreamFrameCount(streamID)
    \/ \E s \in 1..MaxStreams : submitBuffer(s)
    \/ destroyContext

Spec == Init /\ [][Next]_vars

(***************************************************************************)
(* The property protocol: sessions are opened and closed, the queries may  *)
(* leave their null entries in the table, and the property operations run. *)
(***************************************************************************)
NextProperty ==
    \/ \E id \in DeviceIDs, formatID \in FormatIDs : openStream(id, formatID)
    \/ \E streamID \in StreamIDs : closeStream(streamID)
    \/ \E streamID \in StreamIDs : isOpenStream(streamID)
    \/ \E streamID \in StreamIDs, propertyID \in PropertyIDs :
          getStreamPropertyLimits(streamID, propertyID)
    \/ \E streamID \in StreamIDs, propertyID \in PropertyIDs, enable \in BOOLEAN :
          setStreamAutoProperty(streamID, propertyID, enable)
    \/ \E streamID \in StreamIDs, propertyID \in PropertyIDs, value \in PropertyValues :
          setStreamProperty(streamID, propertyID, value)

SpecProperty == Init /\ [][NextProperty]_vars

(***************************************************************************)
(* The registry: the lookups, between opens and closes of streams.         *)
(***************************************************************************)
NextRegistry ==
    \/ \E id \in RegistryDeviceIDs : getDeviceName(id)
    \/ \E index \in RegistryDeviceIDs : getNumFormats(index)
    \/ \E index \in RegistryDeviceIDs, formatID \in FormatIDs : getFormatInfo(index, formatID)
    \/ \E id \in DeviceIDs, formatID \in FormatIDs : openStream(id, formatID)
    \/ \E streamID \in StreamIDs : closeStream(streamID)

SpecRegistry == Init /\ [][NextRegistry]_vars

(***************************************************************************)
(* The handle counter at the end of its range.  The start state stands for *)
(* a context on which INT32_MAX (here: MaxCounter) streams have been       *)
(* opened and closed again; the destroyed Stream objects and the record of *)
(* those calls are left out.  m_streamCounter++ at INT32_MAX is a signed   *)
(* overflow; the builds at hand wrap it.                                   *)
(***************************************************************************)
MaxCounter == 2 ^ (HandleBits - 1) - 1

InitWrap ==
    /\ m_devices \in Registries
    /\ m_streams = << >>
    /\ m_streamCounter = MaxCounter
    /\ heap = << >>
    /\ ctx = "alive"
    /\ last = NoCall
    /\ issued = << >>
    /\ closedOk = {}
    /\ captured = << >>
    /\ remover = Idle
    /\ out = NoOut

SpecWrap == InitWrap /\ [][Next]_vars

(***************************************************************************)
(* fourCCToString                                                          *)
(***************************************************************************)
\* static_cast<char>(fourcc & 0xFF): the byte the string stores (whether it
\* reads as a negative char from 128 on is up to the platform)
LowByteChar(fourcc) == fourcc % 256

\* a rendering that starts at the most significant byte
fourCCToStringBigEndian(fourcc) ==
    << LowByteChar(fourcc \div 16777216), LowByteChar(fourcc \div 65536),
       LowByteChar(fourcc \div 256), LowByteChar(fourcc) >>

\* the loop of fourCCToString from its i-th round on, v the string so far
RECURSIVE fourCCLoop(_, _, _)
fourCCLoop(i, fourcc, v) ==
    IF i < 4
    THEN fourCCLoop(i + 1, fourcc \div 256, Append(v, LowByteChar(fourcc)))
    ELSE v

fourCCToString(fourcc) == fourCCLoop(0, fourcc, << >>)

\* four bytes packed little-endian into a 32-bit value
PackFourCC(cs) == cs[1] + 256 * cs[2] + 65536 * cs[3] + 16777216 * cs[4]

\* bytes of the values rendered: NUL, 'U', 'V', 'Y', DEL and a byte above
\* the ASCII range (not in the top position: the values stay below 2^31)
FourCCBytes == {0, 85, 86, 89, 127, 200}
AsciiBytes == {b \in FourCCBytes : b < 128}
FourCCValues ==
    {PackFourCC(<<a, b, c, d>>) : a \in FourCCBytes, b \in FourCCBytes,
                                  c \in FourCCBytes, d \in AsciiBytes}

\* a caller renders a FOURCC
renderFourCC(fourcc) ==
    /\ ctx = "alive"
    /\ out' = [out EXCEPT !.str = fourCCToString(fourcc)]
    /\ last' = RetInt("fourCCToString", fourcc, 0, 0)
    /\ UNCHANGED <<remover, m_devices, m_streams, m_streamCounter, heap, ctx, issued,
                   closedOk, captured>>

NextFourCC == \E fourcc \in FourCCValues : renderFourCC(fourcc)

SpecFourCC == Init /\ [][NextFourCC]_vars

(***************************************************************************)
(* Two threads of control.  One is inside closeStream -> removeStream,     *)
(* which takes no lock: find, delete it->second and erase(it) are three    *)
(* statements another thread can run between.  The other thread opens      *)
(* streams and makes the property calls, which look the handle up.         *)
(***************************************************************************)
\* line 270-271: it = m_streams.find(ID), found
removeStreamFind(ID) ==
    /\ ctx = "alive"
    /\ remover.pc = "idle"
    /\ ID >= 0
    /\ ID \in DOMAIN m_streams
    /\ remover' = [pc |-> "found", ID |-> ID, it |-> m_streams[ID]]
    /\ UNCHANGED <<m_devices, m_streams, m_streamCounter, heap, ctx, last, issued,
                   closedOk, captured, out>>

\* line 273: delete it->second
removeStreamDelete ==
    /\ ctx = "alive"
    /\ remover.pc = "found"
    /\ heap' = Delete(heap, remover.it)
    /\ remover' = [remover EXCEPT !.pc = "deleted"]
    /\ UNCHANGED <<m_devices, m_streams, m_streamCounter, ctx, last, issued,
                   closedOk, captured, out>>

\* lines 274-275 and closeStream's return
removeStreamErase ==
    /\ ctx = "alive"
    /\ remover.pc = "deleted"
    /\ m_streams' = MapErase(m_streams, remover.ID)
    /\ closedOk' = closedOk \cup {remover.ID}
    /\ last' = RetBool("closeStream", remover.ID, 0, TRUE)
    /\ remover' = Idle
    /\ UNCHANGED <<m_devices, m_streamCounter, heap, ctx, issued, captured, out>>

NextThreads ==
    \/ \E id \in DeviceIDs, formatID \in FormatIDs : openStream(id, formatID)
    \/ \E ID \in StreamIDs : removeStreamFind(ID)
    \/ removeStreamDelete
    \/ removeStreamErase
    \/ \E streamID \in StreamIDs, propertyID \in PropertyIDs :
          getStreamPropertyLimits(streamID, propertyID)
    \/ \E streamID \in StreamIDs, propertyID \in PropertyIDs, enable \in BOOLEAN :
          setStreamAutoProperty(streamID, propertyID, enable)
    \/ \E streamID \in StreamIDs, propertyID \in PropertyIDs, value \in PropertyValues :
          setStreamProperty(streamID, propertyID, value)

SpecThreads == Init /\ [][NextThreads]_vars

(***************************************************************************)
(* Properties.                                                             *)
(***************************************************************************)
\* the handles successful openStream calls have returned
IssuedHandles == {issued[i].h : i \in DOMAIN issued}

\* a handle openStream returned and no closeStream has removed since
LiveHandle(h) == ctx = "alive" /\ h \in IssuedHandles /\ h \notin closedOk

\* C1: closeStream(h), h >= 0 and h not in the session table, returns false
\* and leaves the table, the handle counter and every session unchanged.
C1_CloseUnknownReturnsFalse ==
    [][(last'.op = "closeStream" /\ last'.id >= 0 /\ last'.id \notin DOMAIN m_streams)
          => (~last'.ok /\ UNCHANGED <<m_streams, m_streamCounter, heap>>)]_vars

\* C2: for every handle returned by a successful openStream and not closed,
\* isOpenStream reports the open state of that session; it is not rejected
\* as out of range because other handles were closed.
C2_IsOpenReportsLiveSession ==
    (last.op = "isOpenStream" /\ LiveHandle(last.id))
        => last.ret = (IF heap[m_streams[last.id]].isOpen THEN 1 ELSE 0)

\* C3: in every reachable state and for every handle value, a query either
\* returns its sentinel or calls a session that exists; it never calls
\* through a null pointer.
C3_QueriesNeverCallNull ==
    \A streamID \in StreamIDs :
        ~QueryRejected(streamID) => Dereferenceable(QueryTarget(streamID))

\* C4: the handles returned by successful openStream calls are strictly
\* increasing, so no handle is returned twice, whatever failed opens and
\* closes come between them.
C4_HandlesStrictlyIncreasing ==
    /\ \A i, j \in DOMAIN issued : i < j => issued[i].h < issued[j].h
    /\ (last.op = "openStream" /\ last.ret # -1) => last.ret = issued[Len(issued)].h

C4_Witness ==
    /\ Len(issued) = 2
    /\ issued[1].h \in closedOk
    /\ issued[2].h \in DOMAIN m_streams
    /\ last.op = "openStream" /\ last.ret = issued[2].h

\* C5: openStream with deviceId >= deviceCount() or formatId >= the format
\* count of the device returns -1, creates no session and leaves the counter
\* and the table unchanged; a successful openStream returns the counter value
\* before it, so the failed call does not show in the next handle.
C5_BadIdsAllocateNothing ==
    [][(last'.op = "openStream" =>
          /\ (\/ last'.id >= Len(m_devices)
              \/ /\ m_devices[last'.id + 1].present
                 /\ last'.arg >= Len(m_devices[last'.id + 1].formats))
             => /\ last'.ret = -1
                /\ UNCHANGED <<m_streams, m_streamCounter, heap, ctx>>
          /\ last'.ret # -1 => last'.ret = m_streamCounter)]_vars

C5_Witness ==
    /\ last.op = "openStream" /\ last.ret = -1
    /\ last.id = 0 /\ last.arg >= Len(m_devices[1].formats)
    /\ m_streamCounter = 1 /\ Len(heap) = 1

\* C6: when the open of the platform session fails, openStream returns -1,
\* the counter and the table are unchanged and the session constructed for
\* the attempt is destroyed.
C6_FailedOpenDestroysSession ==
    [][(last'.op = "openStream" /\ last'.ret = -1 /\ Len(heap') > Len(heap))
          => /\ UNCHANGED <<m_streams, m_streamCounter>>
             /\ heap'[Len(heap')].deletes = 1]_vars

\* C7: every handle in the session table maps to an existing session in
\* state Open; no operation adds an entry with no session behind it.
C7_TableHoldsOpenSessions ==
    \A h \in DOMAIN m_streams :
        /\ Dereferenceable(m_streams[h])
        /\ heap[m_streams[h]].isOpen

\* C8: once closeStream(h) has removed the session of h, isOpenStream(h)
\* returns false from then on and a further closeStream(h) returns false.
C8_ClosedStaysClosed ==
    [][/\ (last'.op = "isOpenStream" /\ last'.id \in closedOk)
             => (ctx' = "alive" /\ last'.ret = 0)
       /\ (last'.op = "closeStream" /\ last'.id \in closedOk)
             => ~last'.ok]_vars

\* C9: getStreamFrameCount(h) returns 0 for a handle not in the table and,
\* for the handle of a live session, the number of successful captureFrame
\* calls on h since its openStream.
C9_FrameCountIsCaptures ==
    last.op = "getStreamFrameCount"
        => /\ ctx # "crashed"
           /\ last.ret = (IF LiveHandle(last.id) THEN captured[last.id] ELSE 0)

\* C10: every session a successful openStream created is destroyed exactly
\* once, by the closeStream that removes its handle or by the teardown of the
\* context, and by nothing else; none is destroyed twice, and after teardown
\* none is left.
C10_DestroyedExactlyOnce ==
    \A i \in DOMAIN issued :
        heap[issued[i].s].deletes =
            (IF issued[i].h \in closedOk \/ ctx = "destroyed" THEN 1 ELSE 0)

C10_Witness ==
    /\ ctx = "destroyed"
    /\ Len(issued) = 2
    /\ Cardinality(closedOk) = 1
    /\ \A i \in DOMAIN issued : heap[issued[i].s].deletes = 1

\* C11: removal of a handle is atomic with the destruction of its session:
\* under any interleaving of a closeStream with lookups from another thread,
\* no lookup returns a session that has been destroyed.
C11_LookupNeverReturnsDestroyed ==
    \A ID \in StreamIDs :
        lookupStreamByID(ID) # NULL => Dereferenceable(lookupStreamByID(ID))

\* the result the session s gives for the property call recorded in c
SessionResult(c, s) ==
    CASE c.op = "getStreamPropertyLimits" -> StreamGetPropertyLimits(s, c.arg)
      [] c.op = "setStreamAutoProperty" -> StreamSetAutoProperty(s, c.arg, c.ret = 1)
      [] c.op = "setStreamProperty" -> StreamSetProperty(s, c.arg, c.ret)

PropertyOps == {"getStreamPropertyLimits", "setStreamAutoProperty", "setStreamProperty"}

\* C12: the three property operations return false for every handle with no
\* session in the table and do not change the table; for the handle of a
\* session they return what that session returns for the same property id
\* and arguments.
C12_PropertyCallsDelegate ==
    [][last'.op \in PropertyOps =>
          /\ UNCHANGED <<m_streams, m_streamCounter>>
          /\ ctx' = "alive"
          /\ last'.ok =
                (IF last'.id \in DOMAIN m_streams /\ m_streams[last'.id] # NULL
                 THEN SessionResult(last', heap[m_streams[last'.id]])
                 ELSE FALSE)]_vars

\* a property is set on handle 1 while the table holds one entry, and a
\* call on the closed handle 0 fails
C12_Witness ==
    /\ last.op = "setStreamProperty" /\ last.id = 1 /\ last.ok
    /\ DOMAIN m_streams = {1}
    /\ 0 \in closedOk

\* no descriptor for that device id: out of range, or a null pointer
NoDescriptor(id) == id >= Len(m_devices) \/ ~m_devices[id + 1].present

\* C13: deviceName, formatCount and formatInfo return NULL / -1 / false
\* exactly when the device id is out of range, the descriptor is absent or
\* (formatInfo) the format id is out of range, and otherwise the stored
\* name, the number of formats and the descriptor at position formatId; on
\* NotFound formatInfo does not write the caller's record; the registry
\* never changes.
C13_RegistryLookups ==
    [][/\ m_devices' = m_devices
       /\ last'.op = "getDeviceName" =>
             out'.name = (IF NoDescriptor(last'.id) THEN << >>
                          ELSE <<m_devices[last'.id + 1].name>>)
       /\ last'.op = "getNumFormats" =>
             last'.ret = (IF NoDescriptor(last'.id) THEN -1
                          ELSE Len(m_devices[last'.id + 1].formats))
       /\ last'.op = "getFormatInfo" =>
             IF NoDescriptor(last'.id) \/ last'.arg >= Len(m_devices[last'.id + 1].formats)
             THEN ~last'.ok /\ out'.info = out.info
             ELSE last'.ok /\ out'.info = m_devices[last'.id + 1].formats[last'.arg + 1]
      ]_vars

\* formatInfo fails, and the caller still holds the descriptor an earlier,
\* successful call wrote and the name an earlier deviceName returned
C13_Witness ==
    /\ last.op = "getFormatInfo" /\ ~last.ok
    /\ out.info # NoInfo
    /\ out.name # << >>

\* C14: closeStream with a negative handle returns false and has no side
\* effect on the table, the counter or any session.
C14_NegativeCloseRejected ==
    [][(last'.op = "closeStream" /\ last'.id < 0)
          => (~last'.ok /\ UNCHANGED <<m_streams, m_streamCounter, heap, closedOk>>)]_vars

C14_Witness ==
    /\ last.op = "closeStream" /\ last.id < 0 /\ ~last.ok
    /\ StreamsSize = 2

\* C16: closeStream(h) on a handle in the table returns true, removes
\* exactly the entry h and destroys exactly its session; every other entry,
\* every other session and the handle counter are unchanged.
C16_CloseRemovesExactlyOne ==
    [][(last'.op = "closeStream" /\ last'.id \in DOMAIN m_streams) =>
          /\ last'.ok
          /\ DOMAIN m_streams' = DOMAIN m_streams \ {last'.id}
          /\ \A k \in DOMAIN m_streams' : m_streams'[k] = m_streams[k]
          /\ DOMAIN heap' = DOMAIN heap
          /\ \A s \in DOMAIN heap :
                IF s = m_streams[last'.id]
                THEN heap'[s].deletes = heap[s].deletes + 1
                ELSE heap'[s] = heap[s]
          /\ m_streamCounter' = m_streamCounter]_vars

\* handle 1 has been closed while handle 0 stays open with a frame captured
C16_Witness ==
    /\ last.op = "closeStream" /\ last.id = 1 /\ last.ok
    /\ 1 \in closedOk
    /\ DOMAIN m_streams = {0}
    /\ Dereferenceable(m_streams[0])
    /\ heap[m_streams[0]].frames = 1

\* C17: every key of the session table lies in [0, m_streamCounter), and
\* m_streamCounter is the number of successful openStream calls so far.
C17_KeysBelowCounter ==
    /\ \A k \in DOMAIN m_streams : 0 <= k /\ k < m_streamCounter
    /\ m_streamCounter = Len(issued)

\* two opens, a close, and a query that has put the closed key back
C17_Witness ==
    /\ m_streamCounter = 2
    /\ 0 \in closedOk
    /\ 0 \in DOMAIN m_streams /\ m_streams[0] = NULL
    /\ last.op = "openStream" /\ last.ret = -1

\* C18: openStream with an in-range device id whose descriptor is null
\* fails like a device that is not found: it returns -1, creates no session
\* and allocates no handle.
C18_NullDescriptorNotFound ==
    [][(/\ last'.op = "openStream"
        /\ last'.id < Len(m_devices)
        /\ ~m_devices[last'.id + 1].present)
          => /\ ctx' = "alive"
             /\ last'.ret = -1
             /\ UNCHANGED <<m_streams, m_streamCounter, heap>>]_vars

\* C15: every successful openStream returns a handle >= 0, however many
\* successful opens came before, the counter wrapping at its width.
C15_HandlesNonNegative ==
    /\ \A i \in DOMAIN issued : issued[i].h >= 0
    /\ (last.op = "openStream" /\ last.ret # -1) => last.ret >= 0

\* C19: fourCCToString renders a value as exactly four characters, the i-th
\* (i = 0..3) being byte i of the value from the least significant end; four
\* ASCII characters packed little-endian are rendered as themselves, in
\* order.
C19_FourCCRendering ==
    last.op = "fourCCToString" =>
        /\ Len(out.str) = 4
        /\ \A i \in 0..3 : out.str[i + 1] = (last.id \div (256 ^ i)) % 256
        /\ \A a, b, c, d \in AsciiBytes :
              PackFourCC(<<a, b, c, d>>) = last.id => out.str = <<a, b, c, d>>

\* "YUYV" has been rendered
C19_Witness ==
    /\ last.op = "fourCCToString"
    /\ last.id = PackFourCC(<<89, 85, 89, 86>>)
    /\ out.str = <<89, 85, 89, 86>>

====
